---- MODULE Spec2Model ----
(***************************************************************************)
(* The streaming pipeline of endless-wiki: streamHandler and               *)
(* generateArticleStream (src/main.go), with the renderers of the          *)
(* plain-text and auto-linking variants (src/unnamed/part_001, part_000).  *)
(* Text is a sequence of bytes, as a Go string is: an ASCII byte is its     *)
(* one-character string, a byte of a longer UTF-8 encoding is written with *)
(* its two hexadecimal digits ("C3").                                      *)
(*                                                                         *)
(* The handler modelled is the one of src/main.go, the only one that       *)
(* consults the context of the client's request; the variants under        *)
(* src/unnamed run the same decode loop without it and differ in the       *)
(* renderer applied to the buffer, which `strategy` selects here.          *)
(***************************************************************************)
EXTENDS Integers, Sequences, FiniteSets, TLC

\* Bound on the number of chunks the backend delivers to one session.
MaxChunks == 3
\* The same bound for the runs with two concurrent sessions.
PairChunks == 2

\* len(trimmed) < 100 in the heading heuristic.
HeadingMaxLen == 100

NL == "\n"
BS == "\\"

Nil == "nil"
Canceled == "context canceled"
Unavailable == "connection refused"

Strategies == {"markdown", "plain", "autolink"}

(***************************************************************************)
(* Text helpers (package strings).                                         *)
(***************************************************************************)
HasPrefix(s, p) == Len(s) >= Len(p) /\ SubSeq(s, 1, Len(p)) = p

HasSuffix(s, p) == Len(s) >= Len(p) /\ SubSeq(s, Len(s) - Len(p) + 1, Len(s)) = p

Contains(s, c) == \E i \in 1..Len(s) : s[i] = c

\* Whether old stands in s at position i.
MatchAt(s, old, i) == i + Len(old) - 1 <= Len(s) /\ SubSeq(s, i, i + Len(old) - 1) = old

\* strings.ReplaceAll for a non-empty old: the leftmost occurrence is replaced,
\* and the search goes on after it.
RECURSIVE ReplaceAll(_, _, _)
ReplaceAll(s, old, new) ==
    IF \A i \in 1..Len(s) : ~MatchAt(s, old, i) THEN s
    ELSE LET k == CHOOSE i \in 1..Len(s) :
                      MatchAt(s, old, i) /\ \A j \in 1..(i-1) : ~MatchAt(s, old, j)
         IN  SubSeq(s, 1, k - 1) \o new
                 \o ReplaceAll(SubSeq(s, k + Len(old), Len(s)), old, new)

\* strings.Split(s, "\n"): the lines of s, at least one.
RECURSIVE Split(_)
Split(s) ==
    IF \A i \in 1..Len(s) : s[i] # NL THEN <<s>>
    ELSE LET k == CHOOSE i \in 1..Len(s) : s[i] = NL /\ \A j \in 1..(i-1) : s[j] # NL
         IN  <<SubSeq(s, 1, k - 1)>> \o Split(SubSeq(s, k + 1, Len(s)))

IsSpace(c) == c \in {" ", "\t", NL, "\r"}

RECURSIVE TrimLeftSpace(_)
TrimLeftSpace(s) ==
    IF s # <<>> /\ IsSpace(Head(s)) THEN TrimLeftSpace(Tail(s)) ELSE s

RECURSIVE TrimRightSpace(_)
TrimRightSpace(s) ==
    IF s # <<>> /\ IsSpace(s[Len(s)]) THEN TrimRightSpace(SubSeq(s, 1, Len(s) - 1)) ELSE s

TrimSpace(s) == TrimRightSpace(TrimLeftSpace(s))

Lower == <<"a","b","c","d","e","f","g","h","i","j","k","l","m",
           "n","o","p","q","r","s","t","u","v","w","x","y","z">>
Upper == <<"A","B","C","D","E","F","G","H","I","J","K","L","M",
           "N","O","P","Q","R","S","T","U","V","W","X","Y","Z">>

ToUpperChar(c) ==
    IF \E i \in 1..26 : Lower[i] = c
    THEN Upper[CHOOSE i \in 1..26 : Lower[i] = c]
    ELSE c

ToLowerChar(c) ==
    IF \E i \in 1..26 : Upper[i] = c
    THEN Lower[CHOOSE i \in 1..26 : Upper[i] = c]
    ELSE c

\* The bytes of the two-byte characters of the model: C3 A9 is the letter
\* e with an acute accent, C3 89 its capital.
LeadBytes == {"C3"}
ContBytes == {"89", "A9"}

\* utf8.RuneError as strings.Map writes it for a byte that is no encoding.
RuneError == <<"EF", "BF", "BD">>

ToUpperCont(b) == IF b = "A9" THEN "89" ELSE b

ToLowerCont(b) == IF b = "89" THEN "A9" ELSE b

\* The concatenation of the strings of ss, by halves.
RECURSIVE Concat(_)
Concat(ss) ==
    IF ss = <<>> THEN <<>>
    ELSE IF Len(ss) = 1 THEN ss[1]
    ELSE LET h == Len(ss) \div 2
         IN  Concat(SubSeq(ss, 1, h)) \o Concat(SubSeq(ss, h + 1, Len(ss)))

\* Whether the bytes of s at i and i + 1 encode one character.
IsPair(s, i) == i >= 1 /\ i < Len(s) /\ s[i] \in LeadBytes /\ s[i + 1] \in ContBytes

\* strings.ToUpper: every character mapped, a byte that encodes none replaced.
ToUpper(s) ==
    Concat([i \in 1..Len(s) |->
              IF IsPair(s, i) THEN <<s[i]>>
              ELSE IF IsPair(s, i - 1) THEN <<ToUpperCont(s[i])>>
              ELSE IF s[i] \in LeadBytes \cup ContBytes THEN RuneError
              ELSE <<ToUpperChar(s[i])>>])

\* strings.ToLower
ToLower(s) ==
    Concat([i \in 1..Len(s) |->
              IF IsPair(s, i) THEN <<s[i]>>
              ELSE IF IsPair(s, i - 1) THEN <<ToLowerCont(s[i])>>
              ELSE IF s[i] \in LeadBytes \cup ContBytes THEN RuneError
              ELSE <<ToLowerChar(s[i])>>])

\* Nothing is escaped.
EscapeCharNone(c) == <<c>>

\* template.HTMLEscapeString
EscapeChar(c) ==
    CASE c = "<" -> <<"&","l","t",";">>
      [] c = ">" -> <<"&","g","t",";">>
      [] c = "&" -> <<"&","a","m","p",";">>
      [] c = "'" -> <<"&","#","3","9",";">>
      [] c = "\"" -> <<"&","#","3","4",";">>
      [] OTHER -> <<c>>

HTMLEscapeString(s) == Concat([i \in 1..Len(s) |-> EscapeChar(s[i])])

(***************************************************************************)
(* Heuristic plain-text sectioning (formatPlainTextToHTML).                *)
(***************************************************************************)
BrTag == <<"<","b","r",">">>
H3Open == <<"<","h","3",">">>
H3Close == <<"<","/","h","3",">">>
POpen == <<"<","p",">">>
PClose == <<"<","/","p",">">>

LooksLikeHeader(trimmed) ==
    /\ Len(trimmed) > 0
    /\ \/ HasSuffix(trimmed, <<":">>)
       \/ /\ Len(trimmed) < HeadingMaxLen
          /\ ~Contains(trimmed, ".")
          /\ ToUpper(SubSeq(trimmed, 1, 1)) = SubSeq(trimmed, 1, 1)

FormatLine(line) ==
    IF TrimSpace(line) = <<>> THEN BrTag
    ELSE IF LooksLikeHeader(TrimSpace(line))
         THEN H3Open \o HTMLEscapeString(line) \o H3Close
         ELSE POpen \o HTMLEscapeString(line) \o PClose

RECURSIVE JoinLines(_)
JoinLines(ls) ==
    IF Len(ls) = 1 THEN ls[1]
    ELSE ls[1] \o <<NL>> \o JoinLines(Tail(ls))

formatPlainTextToHTML(content) ==
    LET lines == Split(content)
    IN  JoinLines([i \in 1..Len(lines) |-> FormatLine(lines[i])])

(***************************************************************************)
(* Auto-linking (makeEveryWordClickable, makeWordsClickable, isCommonWord). *)
(***************************************************************************)
\* The cutset of strings.Trim in makeWordsClickable.
Punctuation == {".", ",", "!", "?", ";", ":", "(", ")", "[", "]", "{", "}", "\"", "'"}

commonWords == {
    <<"t","h","e">>, <<"a">>, <<"a","n">>, <<"a","n","d">>, <<"o","r">>, <<"b","u","t">>,
    <<"i","n">>, <<"o","n">>, <<"a","t">>, <<"t","o">>, <<"f","o","r">>, <<"o","f">>,
    <<"w","i","t","h">>, <<"b","y">>, <<"i","s">>, <<"a","r","e">>, <<"w","a","s">>,
    <<"w","e","r","e">>, <<"b","e">>, <<"b","e","e","n">>, <<"h","a","v","e">>, <<"h","a","s">>,
    <<"h","a","d">>, <<"d","o">>, <<"d","o","e","s">>, <<"d","i","d">>, <<"w","i","l","l">>,
    <<"w","o","u","l","d">>, <<"c","o","u","l","d">>, <<"s","h","o","u","l","d">>,
    <<"m","a","y">>, <<"m","i","g","h","t">>, <<"c","a","n">>, <<"m","u","s","t">>,
    <<"s","h","a","l","l">>, <<"t","h","i","s">>, <<"t","h","a","t">>, <<"t","h","e","s","e">>,
    <<"t","h","o","s","e">>, <<"i","t">>, <<"i","t","s">>, <<"h","e">>, <<"s","h","e">>,
    <<"t","h","e","y">>, <<"w","e">>, <<"y","o","u">>, <<"i">>, <<"m","e">>, <<"h","i","m">>,
    <<"h","e","r">>, <<"t","h","e","m">>, <<"u","s">>, <<"m","y">>, <<"y","o","u","r">>,
    <<"h","i","s">>, <<"t","h","e","i","r">>, <<"o","u","r">>, <<"a","s">>, <<"s","o">>,
    <<"i","f">>, <<"w","h","e","n">>, <<"w","h","e","r","e">>, <<"w","h","y">>, <<"h","o","w">>,
    <<"w","h","a","t">>, <<"w","h","o">>, <<"w","h","i","c","h">>, <<"t","h","a","n">>,
    <<"t","h","e","n">>, <<"n","o","w">>, <<"h","e","r","e">>, <<"t","h","e","r","e">>,
    <<"u","p">>, <<"d","o","w","n">>, <<"o","u","t">>, <<"o","f","f">>, <<"o","v","e","r">>,
    <<"u","n","d","e","r">>, <<"a","g","a","i","n">>, <<"f","u","r","t","h","e","r">>,
    <<"o","n","c","e">>, <<"m","o","r","e">>, <<"m","o","s","t">>, <<"o","t","h","e","r">>,
    <<"s","o","m","e">>, <<"a","n","y">>, <<"e","a","c","h">>, <<"f","e","w">>, <<"a","l","l">>,
    <<"b","o","t","h">>, <<"e","i","t","h","e","r">>, <<"n","e","i","t","h","e","r">>,
    <<"n","o","t">>, <<"n","o">>, <<"n","o","r">>, <<"t","o","o">>, <<"v","e","r","y">>,
    <<"j","u","s","t">>, <<"o","n","l","y">>, <<"o","w","n">>, <<"s","a","m","e">>,
    <<"s","u","c","h">>, <<"i","n","t","o">>, <<"f","r","o","m">>, <<"a","b","o","u","t">>,
    <<"a","f","t","e","r">>, <<"b","e","f","o","r","e">>, <<"d","u","r","i","n","g">>,
    <<"b","e","t","w","e","e","n">>, <<"t","h","r","o","u","g","h">>, <<"a","b","o","v","e">>,
    <<"b","e","l","o","w">>, <<"b","e","c","a","u","s","e">>, <<"u","n","t","i","l">>,
    <<"w","h","i","l","e">>, <<"s","i","n","c","e">>, <<"a","l","t","h","o","u","g","h">>,
    <<"t","h","o","u","g","h">>, <<"u","n","l","e","s","s">>
}

isCommonWord(word) == ToLower(word) \in commonWords

RECURSIVE TrimLeft(_)
TrimLeft(s) == IF s # <<>> /\ Head(s) \in Punctuation THEN TrimLeft(Tail(s)) ELSE s

RECURSIVE TrimRight(_)
TrimRight(s) ==
    IF s # <<>> /\ s[Len(s)] \in Punctuation THEN TrimRight(SubSeq(s, 1, Len(s) - 1)) ELSE s

Trim(s) == TrimRight(TrimLeft(s))

\* strings.Fields: the maximal runs of non-space characters.
RECURSIVE Fields(_)
Fields(s) ==
    LET t == TrimLeftSpace(s)
    IN  IF t = <<>> THEN <<>>
        ELSE LET n == IF \E i \in 1..Len(t) : IsSpace(t[i])
                      THEN (CHOOSE i \in 1..Len(t) :
                                IsSpace(t[i]) /\ \A j \in 1..(i-1) : ~IsSpace(t[j])) - 1
                      ELSE Len(t)
             IN  <<SubSeq(t, 1, n)>> \o Fields(SubSeq(t, n + 1, Len(t)))

AnchorOpen == <<"<","a"," ","h","r","e","f","=","\"","/","w","i","k","i","/">>
AnchorMid == <<"\"",">">>
AnchorClose == <<"<","/","a",">">>

\* A link that takes the place of the whole word, punctuation and all.
ClickableWordBare(word) ==
    LET cleanWord == Trim(word)
    IN  IF Len(cleanWord) <= 2 \/ isCommonWord(cleanWord) THEN word
        ELSE AnchorOpen \o cleanWord \o AnchorMid \o cleanWord \o AnchorClose

\* One word of makeWordsClickable's loop.
ClickableWord(word) ==
    LET cleanWord == Trim(word)
    IN  IF Len(cleanWord) <= 2 \/ isCommonWord(cleanWord) THEN word
        ELSE LET prefix == SubSeq(word, 1, Len(word) - Len(TrimLeft(word)))
                 suffix == SubSeq(word, Len(TrimRight(word)) + 1, Len(word))
             IN  prefix \o AnchorOpen \o cleanWord \o AnchorMid \o cleanWord
                        \o AnchorClose \o suffix

RECURSIVE JoinWords(_)
JoinWords(ws) ==
    IF ws = <<>> THEN <<>>
    ELSE IF Len(ws) = 1 THEN ws[1]
    ELSE ws[1] \o <<" ">> \o JoinWords(Tail(ws))

makeWordsClickable(text) ==
    LET words == Fields(text)
    IN  JoinWords([i \in 1..Len(words) |-> ClickableWord(words[i])])

ClickableLine(line) ==
    IF TrimSpace(line) = <<>> THEN BrTag
    ELSE IF LooksLikeHeader(TrimSpace(line))
         THEN H3Open \o makeWordsClickable(line) \o H3Close
         ELSE POpen \o makeWordsClickable(line) \o PClose

makeEveryWordClickable(content) ==
    LET lines == Split(content)
    IN  JoinLines([i \in 1..Len(lines) |-> ClickableLine(lines[i])])

(***************************************************************************)
(* The snapshot of a buffer and its event payload.                         *)
(***************************************************************************)
\* The markup each variant of generateArticleStream derives from the buffer.
Render(strat, text) ==
    CASE strat = "markdown" -> text
      [] strat = "plain" -> formatPlainTextToHTML(text)
      [] strat = "autolink" -> makeEveryWordClickable(text)

\* strings.ReplaceAll(content, "\n", "\\n") of the content event.
EncodeData(html) == ReplaceAll(html, <<NL>>, <<BS, "n">>)

\* The client's event.data.replace(/\\n/g, '\n').
DecodeData(data) == ReplaceAll(data, <<BS, "n">>, <<NL>>)

Snapshot(strat, text) == EncodeData(Render(strat, text))

(***************************************************************************)
(* The link rewriter of the markdown variant (processWikiLinks).           *)
(***************************************************************************)
HrefOpen == <<"<","a"," ","h","r","e","f","=","\"">>
WikiBase == <<"/","w","i","k","i","/">>

processWikiLinks(content) == ReplaceAll(content, HrefOpen, HrefOpen \o WikiBase)

(***************************************************************************)
(* The session: streamHandler calling generateArticleStream.               *)
(***************************************************************************)
VARIABLES
    sessions,     \* the sessions of the run
    limit,        \* the chunks the backend delivers at most to one session
    fragments,    \* the fragments the chunks of the backend carry
    strategy,     \* the renderer the build uses
    topic,        \* mux.Vars(r)["article"]
    pc,           \* where the handler of a session stands
    ctxErr,       \* ctx.Err() of r.Context()
    backend,      \* the generation request at the backend
    err,          \* the error generateArticleStream returned
    fullContent,  \* the strings.Builder of generateArticleStream
    events,       \* what was written to the http.ResponseWriter
    flushed,      \* how many of the events were flushed
    status,       \* the HTTP status of the response, 0 before any
    requests,     \* history: the generation requests client.Do has sent
    chunks,       \* history: the chunks decoded so far
    pushedBuf,    \* history: the buffer at each push of a content event
    loopEnd,      \* history: how the decode loop was left
    discPc,       \* history: where the handler stood when the client disconnected
    discLen,      \* history: the number of events written by then
    input,        \* the text a renderer is called with
    typed,        \* the characters added to that text
    call,         \* the function last applied to it
    result        \* what it returned

\* The variables of the sessions, and those of the renderer calls.
svars == <<sessions, limit, fragments, strategy, topic, pc, ctxErr, backend, err, fullContent,
           events, flushed, status, requests, chunks, pushedBuf, loopEnd, discPc, discLen>>
tvars == <<input, typed, call, result>>

vars == <<svars, tvars>>

Topics == {<<>>, <<"R","o","m","e">>}

\* The fragments a chunk of the backend may carry.
Fragments == {<<>>, <<"A">>, <<NL>>, <<"a",".">>}
\* The same for the runs with two sessions: one text, several chunkings.
PairFragments == {<<"A",NL>>, <<"A",NL,"A",NL>>}

Chunk(frag, done) == [Response |-> frag, Done |-> done]

ContentEvent(data) == [event |-> "content", data |-> data]
ErrorEvent == [event |-> "error", data |-> <<"Failed to generate article">>]
CompleteEvent == [event |-> "complete", data |-> <<"done">>]

InFlight == {"connecting", "streaming"}

\* No topic is refused.
TopicMissingNever(t) == FALSE

\* articleName == "" of streamHandler.
TopicMissing(t) == t = <<>>

\* A request made without the context of the client's request.
RequestBackground(cerr) == Nil

\* The context the backend request is made with (http.NewRequestWithContext).
RequestContext(cerr) == cerr

\* A transport that leaves the request alone when the context is cancelled.
AbortNever(cerr, b) == b

\* The request is aborted by the transport once its context is cancelled.
Abort(cerr, b) == IF RequestContext(cerr) # Nil /\ b \in InFlight THEN "aborted" ELSE b

\* defer resp.Body.Close()
Close(b) == IF b \in InFlight THEN "closed" ELSE b

\* A buffer that keeps the last fragment only.
WriteStringOverwrite(buf, frag) == frag

\* fullContent.WriteString(ollamaResp.Response)
WriteString(buf, frag) == buf \o frag

\* A push for every chunk, empty or not.
ShouldPushAlways(resp) == TRUE

\* if ollamaResp.Response != ""
ShouldPush(resp) == resp.Response # <<>>

\* A loop that reads on after the chunk that says done.
DoneBreakNever(resp) == FALSE

\* if ollamaResp.Done { break }
DoneBreak(resp) == resp.Done

\* A flush that sends nothing on.
FlushNone(was, written) == was

\* flusher.Flush(): all that was written is handed to the transport.
Flush(was, written) == written

\* A loop that never looks at the context.
CtxDoneNever(cerr) == FALSE

\* case <-ctx.Done() of the select at the top of the loop.
CtxDone(cerr) == cerr # Nil

\* A snapshot rendered from the new fragment alone.
ContentStringDelta(buf, resp) == resp.Response

\* A snapshot rendered from the buffer as it was before the append.
ContentStringStale(buf, resp) == SubSeq(buf, 1, Len(buf) - Len(resp.Response))

\* fullContent.String(), the text a snapshot is rendered from.
ContentString(buf, resp) == buf

\* A decode error handed to the caller when the context is not cancelled.
DecodeErrEscalated(cerr) == IF cerr # Nil THEN cerr ELSE "unexpected EOF"

\* A decode error handed to the caller as it is.
DecodeErrReturned(cerr) == "unexpected EOF"

\* The decode error path of the loop: return ctx.Err() when cancelled, else break.
DecodeErrResult(cerr) == IF cerr # Nil THEN cerr ELSE Nil

\* Every error of the generation taken for a cancellation.
CancelledAlways(cerr) == TRUE

\* No error of the generation taken for a cancellation.
CancelledNever(cerr) == FALSE

\* if ctx.Err() == context.Canceled { return } of streamHandler.
CancelledByClient(cerr) == cerr = Canceled

\* A failed request made again.
AfterDoErrorRetry == "start"

\* if err != nil { return err } after client.Do: where the handler goes on.
AfterDoError == "returned"

\* A buffer shared by all sessions.
BufferShared(s) == 1

\* var fullContent strings.Builder: the buffer of a call is its own.
BufferOf(s) == s

\* A handler that comes back to its completion event.
AfterCompletionAgain == "completion"

\* The end of streamHandler after the completion event.
AfterCompletion == "done"

\* A completion event sent whatever the state of the context.
SendCompletionAlways(cerr) == TRUE

\* A completion event guarded by the inverted test.
SendCompletionInverted(cerr) == cerr # Nil

\* No completion event at all.
SendCompletionNever(cerr) == FALSE

\* if ctx.Err() == nil, the guard of the completion event.
SendCompletion(cerr) == cerr = Nil

InitWith(ss, lim, frs) ==
    /\ sessions = ss
    /\ limit = lim
    /\ fragments = frs
    /\ strategy \in Strategies
    /\ topic \in [ss -> Topics]
    /\ pc = [s \in ss |-> "start"]
    /\ ctxErr = [s \in ss |-> Nil]
    /\ backend = [s \in ss |-> "none"]
    /\ err = [s \in ss |-> Nil]
    /\ fullContent = [s \in ss |-> <<>>]
    /\ events = [s \in ss |-> <<>>]
    /\ flushed = [s \in ss |-> 0]
    /\ status = [s \in ss |-> 0]
    /\ requests = [s \in ss |-> 0]
    /\ chunks = [s \in ss |-> <<>>]
    /\ pushedBuf = [s \in ss |-> <<>>]
    /\ loopEnd = [s \in ss |-> "none"]
    /\ discPc = [s \in ss |-> "none"]
    /\ discLen = [s \in ss |-> 0]
    /\ input = <<>>
    /\ typed = 0
    /\ call = "none"
    /\ result = <<>>

Init == InitWith({1}, MaxChunks, Fragments)

\* Two concurrent sessions.
InitPair == InitWith({1, 2}, PairChunks, PairFragments)

\* streamHandler up to the blocking client.Do of generateArticleStream.
StreamHandler(s) ==
    /\ pc[s] = "start"
    /\ IF TopicMissing(topic[s])
       THEN /\ status' = [status EXCEPT ![s] = 400]
            /\ pc' = [pc EXCEPT ![s] = "done"]
            /\ UNCHANGED <<backend, requests>>
       ELSE /\ status' = [status EXCEPT ![s] = 200]
            /\ pc' = [pc EXCEPT ![s] = "awaiting"]
            /\ IF RequestContext(ctxErr[s]) # Nil
               THEN UNCHANGED <<backend, requests>>
               ELSE /\ backend' = [backend EXCEPT ![s] = "connecting"]
                    /\ requests' = [requests EXCEPT ![s] = @ + 1]
    /\ UNCHANGED <<sessions, limit, fragments, strategy, topic, ctxErr, err, fullContent,
                   events, flushed, chunks, pushedBuf, loopEnd, discPc, discLen>>

\* client.Do returns the response: the backend has begun to answer.
DoResponds(s) ==
    /\ pc[s] = "awaiting"
    /\ backend[s] = "connecting"
    /\ backend' = [backend EXCEPT ![s] = "streaming"]
    /\ pc' = [pc EXCEPT ![s] = "loop"]
    /\ UNCHANGED <<sessions, requests, limit, fragments, strategy, topic, ctxErr, err,
                   fullContent, events,
                   flushed, status, chunks, pushedBuf, loopEnd, discPc, discLen>>

\* client.Do fails: the connection cannot be established.
DoUnavailable(s) ==
    /\ pc[s] = "awaiting"
    /\ backend[s] = "connecting"
    /\ backend' = [backend EXCEPT ![s] = "failed"]
    /\ err' = [err EXCEPT ![s] = Unavailable]
    /\ pc' = [pc EXCEPT ![s] = AfterDoError]
    /\ UNCHANGED <<sessions, requests, limit, fragments, strategy, topic, ctxErr,
                   fullContent, events,
                   flushed, status, chunks, pushedBuf, loopEnd, discPc, discLen>>

\* client.Do fails because the context of the request is cancelled.
DoCancelled(s) ==
    /\ pc[s] = "awaiting"
    /\ backend[s] \in {"none", "aborted"}
    /\ err' = [err EXCEPT ![s] = Canceled]
    /\ pc' = [pc EXCEPT ![s] = "returned"]
    /\ UNCHANGED <<sessions, requests, limit, fragments, strategy, topic, ctxErr, backend,
                   fullContent, events,
                   flushed, status, chunks, pushedBuf, loopEnd, discPc, discLen>>

\* The select on ctx.Done() at the top of the loop.
LoopSelect(s) ==
    /\ pc[s] = "loop"
    /\ IF CtxDone(ctxErr[s])
       THEN /\ err' = [err EXCEPT ![s] = ctxErr[s]]
            /\ backend' = [backend EXCEPT ![s] = Close(backend[s])]
            /\ loopEnd' = [loopEnd EXCEPT ![s] = "cancelled"]
            /\ pc' = [pc EXCEPT ![s] = "returned"]
       ELSE /\ pc' = [pc EXCEPT ![s] = "decode"]
            /\ UNCHANGED <<err, backend, loopEnd>>
    /\ UNCHANGED <<sessions, requests, limit, fragments, strategy, topic, ctxErr,
                   fullContent, events,
                   flushed, status, chunks, pushedBuf, discPc, discLen>>

\* decoder.Decode yields a chunk: append, render, push, flush, and leave on done.
\* After an abort only a chunk the decoder has already buffered can be decoded.
DecodeChunk(s, frag, done) ==
    /\ pc[s] = "decode"
    /\ backend[s] \in {"streaming", "aborted"}
    /\ Len(chunks[s]) < limit
    /\ LET resp == Chunk(frag, done)
           buf == IF ShouldPush(resp)
                  THEN WriteString(fullContent[BufferOf(s)], resp.Response)
                  ELSE fullContent[BufferOf(s)]
           out == IF ShouldPush(resp)
                  THEN Append(events[s],
                              ContentEvent(Snapshot(strategy, ContentString(buf, resp))))
                  ELSE events[s]
       IN  /\ chunks' = [chunks EXCEPT ![s] = Append(@, resp)]
           /\ pushedBuf' = [pushedBuf EXCEPT ![s] =
                                IF ShouldPush(resp) THEN Append(@, buf) ELSE @]
           /\ fullContent' = [fullContent EXCEPT ![BufferOf(s)] = buf]
           /\ events' = [events EXCEPT ![s] = out]
           /\ flushed' = [flushed EXCEPT ![s] =
                              IF ShouldPush(resp) THEN Flush(@, Len(out)) ELSE @]
           /\ IF DoneBreak(resp)
              THEN /\ err' = [err EXCEPT ![s] = Nil]
                   /\ backend' = [backend EXCEPT ![s] = Close(backend[s])]
                   /\ loopEnd' = [loopEnd EXCEPT ![s] = "done"]
                   /\ pc' = [pc EXCEPT ![s] = "returned"]
              ELSE /\ pc' = [pc EXCEPT ![s] = "loop"]
                   /\ UNCHANGED <<err, backend, loopEnd>>
    /\ UNCHANGED <<sessions, requests, limit, fragments, strategy, topic, ctxErr, status, discPc,
                   discLen>>

\* decoder.Decode fails: the stream ended, the next object is malformed, or the
\* read was aborted with the context.
DecodeFails(s) ==
    /\ pc[s] = "decode"
    /\ err' = [err EXCEPT ![s] = DecodeErrResult(ctxErr[s])]
    /\ backend' = [backend EXCEPT ![s] = Close(backend[s])]
    /\ pc' = [pc EXCEPT ![s] = "returned"]
    /\ loopEnd' = [loopEnd EXCEPT ![s] = "decode error"]
    /\ UNCHANGED <<sessions, requests, limit, fragments, strategy, topic, ctxErr,
                   fullContent, events,
                   flushed, status, chunks, pushedBuf, discPc, discLen>>

\* streamHandler after generateArticleStream returned: if err != nil { ... }.
HandleResult(s) ==
    /\ pc[s] = "returned"
    /\ IF err[s] # Nil
       THEN IF CancelledByClient(ctxErr[s])
            THEN /\ pc' = [pc EXCEPT ![s] = "done"]
                 /\ flushed' = [flushed EXCEPT ![s] = Len(events[s])]
                 /\ UNCHANGED events
            ELSE /\ events' = [events EXCEPT ![s] = Append(@, ErrorEvent)]
                 /\ pc' = [pc EXCEPT ![s] = "completion"]
                 /\ UNCHANGED flushed
       ELSE /\ pc' = [pc EXCEPT ![s] = "completion"]
            /\ UNCHANGED <<events, flushed>>
    /\ UNCHANGED <<sessions, requests, limit, fragments, strategy, topic, ctxErr, backend,
                   err, fullContent,
                   status, chunks, pushedBuf, loopEnd, discPc, discLen>>

\* The completion event of streamHandler, and its return.
Complete(s) ==
    /\ pc[s] = "completion"
    /\ events' = [events EXCEPT ![s] =
                     IF SendCompletion(ctxErr[s]) THEN Append(@, CompleteEvent) ELSE @]
    /\ flushed' = [flushed EXCEPT ![s] = Len(events'[s])]
    /\ pc' = [pc EXCEPT ![s] = AfterCompletion]
    /\ UNCHANGED <<sessions, requests, limit, fragments, strategy, topic, ctxErr, backend,
                   err, fullContent,
                   status, chunks, pushedBuf, loopEnd, discPc, discLen>>

\* The client goes away: the server cancels r.Context().
Disconnect(s) ==
    /\ pc[s] # "done"
    /\ ctxErr[s] = Nil
    /\ ctxErr' = [ctxErr EXCEPT ![s] = Canceled]
    /\ backend' = [backend EXCEPT ![s] = Abort(Canceled, backend[s])]
    /\ discPc' = [discPc EXCEPT ![s] = pc[s]]
    /\ discLen' = [discLen EXCEPT ![s] = Len(events[s])]
    /\ UNCHANGED <<sessions, requests, limit, fragments, strategy, topic, pc, err,
                   fullContent, events, flushed, status, chunks, pushedBuf, loopEnd>>

Next ==
    /\ \E s \in sessions :
        \/ StreamHandler(s)
        \/ DoResponds(s)
        \/ DoUnavailable(s)
        \/ DoCancelled(s)
        \/ LoopSelect(s)
        \/ \E frag \in fragments, done \in BOOLEAN : DecodeChunk(s, frag, done)
        \/ DecodeFails(s)
        \/ HandleResult(s)
        \/ Complete(s)
        \/ Disconnect(s)
    /\ UNCHANGED tvars

Spec == Init /\ [][Next]_vars

SpecPair == InitPair /\ [][Next]_vars

\* The steps the handler takes by itself go on; the backend owes nothing, it may
\* stay silent for ever. A call of client.Do or of decoder.Decode whose request
\* was aborted, or never sent for a cancelled context, returns.
Fairness ==
    \A s \in {1} :
        /\ WF_vars(StreamHandler(s) /\ UNCHANGED tvars)
        /\ WF_vars(LoopSelect(s) /\ UNCHANGED tvars)
        /\ WF_vars(HandleResult(s) /\ UNCHANGED tvars)
        /\ WF_vars(Complete(s) /\ UNCHANGED tvars)
        /\ WF_vars(DoCancelled(s) /\ UNCHANGED tvars)
        /\ WF_vars(backend[s] = "aborted" /\ DecodeFails(s) /\ UNCHANGED tvars)

SpecLive == Init /\ [][Next]_vars /\ Fairness

(***************************************************************************)
(* The renderers, the link rewriter and the event framing called on their  *)
(* own: a text is built from a seed by typing characters at its end, and   *)
(* each function is applied to it.                                         *)
(***************************************************************************)
\* Bound on the characters typed after a seed.
MaxTyped == 2

\* Length of the seed that stands just under the limit of the heading rule.
LongLen == HeadingMaxLen - 2

SeedScript ==
    <<"<","s","c","r","i","p","t",">">>

SeedQuantum ==
    <<"T","h","e"," ","Q","u","a","n","t","u","m"," ","T","h","e","o","r","y"," ","w",
      "a","s"," ","i","m","p","o","r","t","a","n","t",".">>

SeedIntroduction ==
    <<"I","n","t","r","o","d","u","c","t","i","o","n",":">>

SeedSentence ==
    <<"T","h","i","s"," ","i","s"," ","a"," ","s","e","n","t","e","n","c","e"," ","w",
      "i","t","h"," ","a"," ","p","e","r","i","o","d",".">>

SeedExternal ==
    <<"<","p",">","<","a"," ","h","r","e","f","=","\"","x","\"",">","t","<","/","a",">",
      "<","/","p",">">>

SeedInternal ==
    <<"<","p",">","<","a"," ","h","r","e","f","=","\"","/","w","i","k","i","/","x","\"",">",
      "t","<","/","a",">","<","/","p",">">>

SeedBackslash ==
    <<"a",BS,"n","b">>

SeedQuoted ==
    <<"(","\"","R","o","m","e","\"",")",",">>

SeedLong == [i \in 1..LongLen |-> "A"]

Seeds == {<<>>, SeedScript, SeedQuantum, SeedIntroduction, SeedSentence, SeedExternal,
          SeedInternal, SeedBackslash, SeedQuoted, SeedLong}

\* The characters typed: each is the bytes of its UTF-8 encoding.
Chars == {<<"a">>, <<"A">>, <<" ">>, <<".">>, <<":">>, <<"<">>, <<NL>>,
          <<"C3", "A9">>, <<"C3", "89">>}

InitText ==
    /\ sessions = {}
    /\ limit = 0
    /\ fragments = {}
    /\ strategy \in Strategies
    /\ topic = << >>
    /\ pc = << >>
    /\ ctxErr = << >>
    /\ backend = << >>
    /\ err = << >>
    /\ fullContent = << >>
    /\ events = << >>
    /\ flushed = << >>
    /\ status = << >>
    /\ requests = << >>
    /\ chunks = << >>
    /\ pushedBuf = << >>
    /\ loopEnd = << >>
    /\ discPc = << >>
    /\ discLen = << >>
    /\ input \in Seeds
    /\ typed = 0
    /\ call = "none"
    /\ result = <<>>

\* One more character of the text arrives.
Type(c) ==
    /\ typed < MaxTyped
    /\ input' = input \o c
    /\ typed' = typed + 1
    /\ call' = "none"
    /\ result' = <<>>
    /\ UNCHANGED svars

\* The snapshot of the text.
ApplyRender ==
    /\ call = "none"
    /\ call' = "render"
    /\ result' = Render(strategy, input)
    /\ UNCHANGED <<input, typed, svars>>

\* makeWordsClickable is handed one line.
ApplyWords ==
    /\ ~Contains(input, NL)
    /\ call = "none"
    /\ call' = "words"
    /\ result' = makeWordsClickable(input)
    /\ UNCHANGED <<input, typed, svars>>

\* The rewriter applied to rendered markup.
ApplyRewrite ==
    /\ call = "none"
    /\ call' = "rewrite"
    /\ result' = processWikiLinks(input)
    /\ UNCHANGED <<input, typed, svars>>

\* The rewriter applied to what it returned.
ApplyRewriteAgain ==
    /\ call = "rewrite"
    /\ call' = "rewrite again"
    /\ result' = processWikiLinks(result)
    /\ UNCHANGED <<input, typed, svars>>

\* The snapshot of the text sent as the data of an event and read by the client.
ApplyFrame ==
    /\ call = "none"
    /\ call' = "frame"
    /\ result' = DecodeData(EncodeData(Render(strategy, input)))
    /\ UNCHANGED <<input, typed, svars>>

NextText ==
    \/ \E c \in Chars : Type(c)
    \/ ApplyRender
    \/ ApplyWords
    \/ ApplyRewrite
    \/ ApplyRewriteAgain
    \/ ApplyFrame

SpecText == InitText /\ [][NextText]_vars

(***************************************************************************)
(* Properties of a session.                                                *)
(***************************************************************************)
EventKinds(s) == [i \in 1..Len(events[s]) |-> events[s][i].event]

Count(kinds, k) == Cardinality({i \in 1..Len(kinds) : kinds[i] = k})

IsPrefix(p, q) == Len(p) <= Len(q) /\ SubSeq(q, 1, Len(p)) = p

FragmentsOf(cs) == [i \in 1..Len(cs) |-> cs[i].Response]

\* The phases in which the session waits for or reads from the backend.
BackendPhase == {"awaiting", "loop", "decode"}

\* C1: when the client disconnects while the session awaits or streams from the
\* backend, no complete event is pushed from then on and the session pushes no
\* error event.
C1_NoTerminalAfterDisconnect ==
    \A s \in sessions :
        discPc[s] \in BackendPhase =>
            /\ \A i \in 1..Len(events[s]) :
                   i > discLen[s] => events[s][i].event # "complete"
            /\ \A i \in 1..Len(events[s]) : events[s][i].event # "error"

\* A session that lost its client in the middle of the stream and has ended.
C1_Witness ==
    \E s \in sessions :
        /\ discPc[s] = "decode"
        /\ discLen[s] > 0
        /\ pc[s] = "done"

\* C2: once the client has disconnected the backend request is not in flight any
\* more, and no session ends with its backend request still in flight.
C2_DisconnectAbortsBackend ==
    \A s \in sessions :
        /\ ctxErr[s] # Nil => backend[s] \notin InFlight
        /\ pc[s] = "done" => backend[s] \notin InFlight

\* The client left while a chunk was awaited, and the request was aborted.
C2_Witness ==
    \E s \in sessions :
        /\ discPc[s] = "decode"
        /\ ctxErr[s] = Canceled
        /\ backend[s] = "aborted"

\* C3: N chunks with non-empty fragments, done on the last, and the client still
\* connected: N content events, then one complete event, and no error event.
C3_NormalCompletion ==
    \A s \in sessions :
        ( /\ pc[s] = "done"
          /\ ctxErr[s] = Nil
          /\ chunks[s] # <<>>
          /\ \A i \in 1..Len(chunks[s]) : chunks[s][i].Response # <<>>
          /\ chunks[s][Len(chunks[s])].Done )
        => EventKinds(s) = [i \in 1..(Len(chunks[s]) + 1) |->
                               IF i <= Len(chunks[s]) THEN "content" ELSE "complete"]

\* A completed session of MaxChunks non-empty chunks.
C3_Witness ==
    \E s \in sessions :
        /\ pc[s] = "done"
        /\ ctxErr[s] = Nil
        /\ Len(chunks[s]) >= 3
        /\ \A i \in 1..Len(chunks[s]) : chunks[s][i].Response # <<>>
        /\ chunks[s][Len(chunks[s])].Done
        /\ Count(EventKinds(s), "complete") = 1

\* C4: the buffer is the concatenation of the fragments decoded so far, in the
\* order of arrival, and every step leaves the old buffer a prefix of the new.
C4_BufferIsConcatenation ==
    /\ [](\A s \in sessions : fullContent[s] = Concat(FragmentsOf(chunks[s])))
    /\ [][\A s \in sessions : IsPrefix(fullContent[s], fullContent'[s])]_vars

\* A buffer built from two non-empty fragments around an empty one.
C4_Witness ==
    \E s \in sessions :
        /\ Len(chunks[s]) >= 3
        /\ chunks[s][1].Response # <<>>
        /\ chunks[s][2].Response = <<>>
        /\ chunks[s][3].Response # <<>>
        /\ Len(fullContent[s]) >= 2

\* The payloads of the content events of a session, in the order of the pushes.
IsContent(e) == e.event = "content"
ContentData(s) ==
    LET cs == SelectSeq(events[s], IsContent)
    IN  [i \in 1..Len(cs) |-> cs[i].data]

NonEmpty(x) == x # <<>>
NonEmptyFragments(s) == SelectSeq(FragmentsOf(chunks[s]), NonEmpty)

\* C5: two pushes made from the same buffer text, in one session or in two, carry
\* the same snapshot, whatever chunks built the text; the last snapshots of two
\* completed streams of the same text are the same.
C5_SnapshotDependsOnBufferOnly ==
    \A s \in sessions, u \in sessions :
        /\ \A i \in 1..Len(pushedBuf[s]), j \in 1..Len(pushedBuf[u]) :
               pushedBuf[s][i] = pushedBuf[u][j] => ContentData(s)[i] = ContentData(u)[j]
        /\ ( /\ loopEnd[s] = "done" /\ loopEnd[u] = "done"
             /\ fullContent[s] = fullContent[u]
             /\ fullContent[s] # <<>> )
           => ContentData(s)[Len(ContentData(s))] = ContentData(u)[Len(ContentData(u))]

\* Two completed sessions hold the same text, built from different chunks.
C5_Witness ==
    \E s \in sessions, u \in sessions :
        /\ loopEnd[s] = "done" /\ loopEnd[u] = "done"
        /\ fullContent[s] = fullContent[u]
        /\ Len(chunks[s]) = 1
        /\ Len(chunks[u]) = 2
        /\ Len(pushedBuf[s]) = 1
        /\ Len(pushedBuf[u]) = 2

\* C6: the content events are one per decoded chunk with a non-empty fragment, in
\* the order of arrival, the k-th carrying the snapshot of the first k non-empty
\* fragments; a chunk with an empty fragment pushes nothing and leaves the buffer.
C6_OnePushPerChunkInOrder ==
    /\ [](\A s \in sessions :
            /\ Len(ContentData(s)) = Len(NonEmptyFragments(s))
            /\ \A k \in 1..Len(ContentData(s)) :
                   ContentData(s)[k]
                     = Snapshot(strategy, Concat(SubSeq(NonEmptyFragments(s), 1, k))))
    /\ [][\A s \in sessions :
            ( /\ Len(chunks'[s]) = Len(chunks[s]) + 1
              /\ chunks'[s][Len(chunks'[s])].Response = <<>> )
            => /\ events'[s] = events[s]
               /\ fullContent'[s] = fullContent[s]]_vars

\* Three chunks were decoded, the second with an empty fragment: two pushes.
C6_Witness ==
    \E s \in sessions :
        /\ Len(chunks[s]) >= 3
        /\ chunks[s][1].Response # <<>>
        /\ chunks[s][2].Response = <<>>
        /\ chunks[s][3].Response # <<>>
        /\ Len(ContentData(s)) = 2

\* C7: when a complete or error event is pushed and the buffer is not empty, the
\* last content event before it carries the snapshot of the whole buffer.
C7_NoFragmentDropped ==
    \A s \in sessions :
        \A i \in 1..Len(events[s]) :
            (events[s][i].event \in {"complete", "error"} /\ fullContent[s] # <<>>)
            => LET before == SelectSeq(SubSeq(events[s], 1, i - 1), IsContent)
               IN  /\ before # <<>>
                   /\ before[Len(before)].data = Snapshot(strategy, fullContent[s])

\* A stream of two fragments completed with its complete event.
C7_Witness ==
    \E s \in sessions :
        /\ Len(NonEmptyFragments(s)) >= 2
        /\ events[s] # <<>>
        /\ events[s][Len(events[s])].event = "complete"

\* C8: the backend cannot be reached and the client is still connected: no
\* content event, one error event, then one complete event.
C8_BackendUnavailable ==
    \A s \in sessions :
        (pc[s] = "done" /\ backend[s] = "failed" /\ ctxErr[s] = Nil)
        => EventKinds(s) = <<"error", "complete">>

\* A session whose connection to the backend failed has ended.
C8_Witness ==
    \E s \in sessions :
        /\ pc[s] = "done"
        /\ backend[s] = "failed"
        /\ err[s] = Unavailable
        /\ ctxErr[s] = Nil

\* C9 as stated: a decode loop left without done and without cancellation ends
\* with an error event followed by the complete event.
C9_DecodeEndFails ==
    \A s \in sessions :
        (pc[s] = "done" /\ loopEnd[s] = "decode error" /\ ctxErr[s] = Nil)
        => /\ Len(events[s]) >= 2
           /\ events[s][Len(events[s]) - 1].event = "error"
           /\ events[s][Len(events[s])].event = "complete"

\* C9, amended: a decode loop left without done and without cancellation does not
\* fail the session: no error event is pushed and the complete event is the last
\* push; an error event is pushed only when the request fails before the stream.
C9_DecodeEndCompletes ==
    \A s \in sessions :
        /\ (pc[s] = "done" /\ loopEnd[s] = "decode error" /\ ctxErr[s] = Nil)
           => /\ Count(EventKinds(s), "error") = 0
              /\ events[s] # <<>>
              /\ events[s][Len(events[s])].event = "complete"
        /\ Count(EventKinds(s), "error") > 0 => backend[s] = "failed"

\* The backend stream ended after one chunk without done; the session has ended.
C9_Witness ==
    \E s \in sessions :
        /\ pc[s] = "done"
        /\ loopEnd[s] = "decode error"
        /\ ctxErr[s] = Nil
        /\ Len(chunks[s]) = 1
        /\ ~chunks[s][1].Done

\* C10: a chunk that cannot be decoded, the client connected: the pushes made so
\* far stand, one per non-empty fragment, no error event, one complete event last.
C10_MalformedChunkEndsStream ==
    /\ [](\A s \in sessions :
            (pc[s] = "done" /\ loopEnd[s] = "decode error" /\ ctxErr[s] = Nil)
            => EventKinds(s) = [i \in 1..(Len(NonEmptyFragments(s)) + 1) |->
                                   IF i <= Len(NonEmptyFragments(s))
                                   THEN "content" ELSE "complete"])
    /\ [][\A s \in sessions : IsPrefix(events[s], events'[s])]_vars

\* Two snapshots were pushed, then a chunk could not be decoded.
C10_Witness ==
    \E s \in sessions :
        /\ pc[s] = "done"
        /\ loopEnd[s] = "decode error"
        /\ ctxErr[s] = Nil
        /\ Len(ContentData(s)) = 2
        /\ Len(events[s]) = 3

\* C11: a request with an empty topic is answered with status 400 and goes no
\* further: it makes no generation request, the backend never hears of it, and
\* no content, error or complete event is written.
C11_EmptyTopicRejected ==
    \A s \in sessions :
        topic[s] = <<>> =>
            /\ requests[s] = 0
            /\ backend[s] = "none"
            /\ events[s] = <<>>
            /\ pc[s] \in {"start", "done"}
            /\ pc[s] = "done" => status[s] = 400

\* The handler has returned from a request with an empty topic.
C11_Witness ==
    \E s \in sessions : topic[s] = <<>> /\ pc[s] = "done" /\ status[s] = 400

(***************************************************************************)
(* The renderers.                                                          *)
(***************************************************************************)
CountOf(s, c) == Cardinality({i \in 1..Len(s) : s[i] = c})

HasSubSeq(s, p) == \E i \in 1..Len(s) : MatchAt(s, p, i)

IsBlank(line) == \A i \in 1..Len(line) : IsSpace(line[i])

\* The tags sectioning puts around the lines of a text: one for a blank line,
\* two for any other.
LineTags(content) ==
    LET lines == Split(content)
        blank == {i \in 1..Len(lines) : IsBlank(lines[i])}
    IN  Cardinality(blank) + 2 * (Len(lines) - Cardinality(blank))

\* The anchors auto-linking makes of a text.
Anchors(content) ==
    LET words == Fields(content)
    IN  Cardinality({i \in 1..Len(words) :
                        Len(Trim(words[i])) > 2 /\ ~isCommonWord(Trim(words[i]))})

\* C12: in a snapshot of auto-linking the only <, > and double quotes are those
\* of the tags and anchors the renderer makes itself (two tags a line, one for a
\* blank line, and an opening and a closing tag with one quoted target for every
\* anchor), and no <script> of the text stands in it.
C12_AutolinkEscapesText ==
    (strategy = "autolink" /\ call = "render") =>
        /\ CountOf(result, "<") = LineTags(input) + 2 * Anchors(input)
        /\ CountOf(result, ">") = LineTags(input) + 2 * Anchors(input)
        /\ CountOf(result, "\"") = 2 * Anchors(input)
        /\ ~HasSubSeq(result, SeedScript)

\* C13: in a snapshot of plain-text sectioning the only < and > are those of the
\* heading, paragraph and line-break tags of the renderer, one tag for a blank
\* line and two for any other, and no <script> of the text stands in it.
C13_PlainEscapesLines ==
    (strategy = "plain" /\ call = "render") =>
        /\ CountOf(result, "<") = LineTags(input)
        /\ CountOf(result, ">") = LineTags(input)
        /\ ~HasSubSeq(result, SeedScript)

\* Plain-text sectioning has rendered a text that holds <script>.
C13_Witness ==
    /\ strategy = "plain"
    /\ call = "render"
    /\ HasSubSeq(input, SeedScript)
    /\ HasSubSeq(result, HTMLEscapeString(SeedScript))

(***************************************************************************)
(* The link rewriter.                                                      *)
(***************************************************************************)
\* C14: the rewriter applied to its own output returns it unchanged.
C14_RewriterIdempotent ==
    [][call' = "rewrite again" => result' = result]_vars

\* The markup m with the internal base put before the target of every anchor
\* that does not already begin with it, and nothing else changed.
RECURSIVE PrefixExternal(_)
PrefixExternal(m) ==
    IF \A i \in 1..Len(m) : ~MatchAt(m, HrefOpen, i) THEN m
    ELSE LET k == CHOOSE i \in 1..Len(m) :
                      MatchAt(m, HrefOpen, i) /\ \A j \in 1..(i-1) : ~MatchAt(m, HrefOpen, j)
             rest == SubSeq(m, k + Len(HrefOpen), Len(m))
         IN  SubSeq(m, 1, k - 1) \o HrefOpen
                 \o (IF HasPrefix(rest, WikiBase) THEN <<>> ELSE WikiBase)
                 \o PrefixExternal(rest)

\* C15: one application of the rewriter puts the internal base once before the
\* target of every anchor that did not point at it already, and changes nothing
\* else of the markup.
C15_RewriterPrefixesExternalOnly ==
    call = "rewrite" => result = PrefixExternal(input)

(***************************************************************************)
(* Sectioning and auto-linking.                                            *)
(***************************************************************************)
\* The characters of a text: the bytes that begin one.
CharLen(s) == Cardinality({i \in 1..Len(s) : ~IsPair(s, i - 1)})

\* The first character of a non-empty text, all its bytes.
FirstChar(s) == IF IsPair(s, 1) THEN SubSeq(s, 1, 2) ELSE SubSeq(s, 1, 1)

\* The rule of the heading for a line without its surrounding white space.
HeadingRule(line) ==
    \/ HasSuffix(line, <<":">>)
    \/ /\ CharLen(line) < HeadingMaxLen
       /\ ~Contains(line, ".")
       /\ ToUpper(FirstChar(line)) = FirstChar(line)

IsHeading(out) == HasPrefix(out, H3Open) /\ HasSuffix(out, H3Close)

IsParagraph(out) == HasPrefix(out, POpen) /\ HasSuffix(out, PClose)

\* C16: sectioning renders the lines one by one, each by itself: a blank line as
\* a line break and nothing else, any other line as a heading if, its
\* surrounding white space aside, it ends with a colon or has under 100
\* characters, no period and a first character equal to its uppercase form, and
\* as a paragraph if not.
C16_LineClassification ==
    (strategy \in {"plain", "autolink"} /\ call = "render") =>
        LET lines == Split(input)
            outs == Split(result)
        IN  /\ Len(outs) = Len(lines)
            /\ \A i \in 1..Len(lines) :
                   /\ outs[i] = Render(strategy, lines[i])
                   /\ IF IsBlank(lines[i]) THEN outs[i] = BrTag
                      ELSE IF HeadingRule(TrimSpace(lines[i])) THEN IsHeading(outs[i])
                      ELSE IsParagraph(outs[i])

\* What the rule of auto-linking makes of one word: a link to the word without
\* its leading and trailing punctuation, the punctuation kept around the link,
\* if that word has more than 2 characters and is no stop word whatever its case.
LinkedWord(word) ==
    LET stripped == Trim(word)
        k == CHOOSE i \in 1..(Len(word) + 1) :
                 /\ \A j \in 1..(i - 1) : word[j] \in Punctuation
                 /\ i <= Len(word) => word[i] \notin Punctuation
    IN  IF CharLen(stripped) > 2 /\ ToLower(stripped) \notin commonWords
        THEN SubSeq(word, 1, k - 1)
                 \o AnchorOpen \o stripped \o AnchorMid \o stripped \o AnchorClose
                 \o SubSeq(word, k + Len(stripped), Len(word))
        ELSE word

\* C17: auto-linking makes a link of a word exactly when the word without its
\* leading and trailing punctuation has more than 2 characters and is no stop
\* word whatever its case, and the link leads to /wiki/ followed by that word as
\* it is written; every other word is left as it is.
C17_LinkRule ==
    call = "words" =>
        LET words == Fields(input)
        IN  result = JoinWords([i \in 1..Len(words) |-> LinkedWord(words[i])])

(***************************************************************************)
(* The framing of a snapshot.                                              *)
(***************************************************************************)
\* C18: what the client makes of the data of a content event is the snapshot
\* the server rendered, newlines included.
C18_FramingRoundTrip ==
    call = "frame" => result = Render(strategy, input)

(***************************************************************************)
(* Sessions side by side.                                                  *)
(***************************************************************************)
\* What a session has of its own.
SessionState(s) ==
    <<pc[s], ctxErr[s], backend[s], err[s], fullContent[s], events[s], flushed[s],
      status[s], requests[s]>>

\* C19: no step changes the buffer, the events, the outcome or anything else of
\* two sessions: whatever one session does, the others stay as they were.
C19_SessionsIndependent ==
    [][\A u, v \in sessions :
          u # v => (SessionState(u)' = SessionState(u) \/ SessionState(v)' = SessionState(v))]_vars

\* One session has failed at the backend while the other has pushed two
\* snapshots of its own buffer and completed.
C19_Witness ==
    \E u, v \in sessions :
        /\ u # v
        /\ pc[u] = "done" /\ err[u] = Unavailable /\ EventKinds(u) = <<"error", "complete">>
        /\ pc[v] = "done" /\ Len(ContentData(v)) = 2 /\ fullContent[v] # <<>>
        /\ fullContent[u] = <<>>

\* C20 as stated: a request with a topic has sent one generation request once
\* its handler has run, whatever came of it.
C20_ExactlyOneRequest ==
    \A s \in sessions : (topic[s] # <<>> /\ pc[s] # "start") => requests[s] = 1

\* C20: a session never sends a second generation request, and a request with a
\* topic has sent one once its handler has run, unless the client was gone
\* before the handler ran: then none is sent.
C20_OneRequestUnlessGone ==
    \A s \in sessions :
        /\ requests[s] <= 1
        /\ pc[s] = "start" => requests[s] = 0
        /\ (topic[s] # <<>> /\ pc[s] # "start")
               => (requests[s] = 1 <=> discPc[s] # "start")

\* Two sessions for the same topic have ended, one of them failed at the
\* backend: each has sent its own request, and one only.
C20_Witness ==
    \E u, v \in sessions :
        /\ u # v
        /\ topic[u] = topic[v] /\ topic[u] # <<>>
        /\ pc[u] = "done" /\ pc[v] = "done"
        /\ err[u] = Unavailable
        /\ loopEnd[v] = "done"
        /\ requests[u] = 1 /\ requests[v] = 1

(***************************************************************************)
(* The end of a session.                                                   *)
(***************************************************************************)
Accepted(s) == topic[s] # <<>>

\* What ends a session: the backend completed or its stream ended or failed
\* (the loop was left), the backend request failed, or the client disconnected.
Signal(s) == loopEnd[s] # "none" \/ err[s] # Nil \/ ctxErr[s] # Nil

Failed(s) == Count(EventKinds(s), "error") > 0

Completed(s) == ~Failed(s) /\ Count(EventKinds(s), "complete") > 0

Cancelled(s) == ~Failed(s) /\ ~Completed(s) /\ ctxErr[s] # Nil

\* C21: a session ends only after the backend completed, the backend failed or
\* its stream ended, or the client disconnected, never by the passing of time;
\* once one of these has happened the session ends, as Completed, Cancelled or
\* Failed, and an ended session takes no further step.
C21_SessionEnds ==
    /\ [](\A s \in sessions :
            (Accepted(s) /\ pc[s] = "done")
                => (Signal(s) /\ (Completed(s) \/ Cancelled(s) \/ Failed(s))))
    /\ \A s \in {1} : (Accepted(s) /\ Signal(s)) ~> (pc[s] = "done")
    /\ [][\A s \in sessions :
            /\ pc[s] = "done" => SessionState(s)' = SessionState(s)
            /\ (pc[s] \in {"awaiting", "decode"} /\ ~Signal(s) /\ pc'[s] # pc[s])
                   => (backend'[s] # backend[s] \/ chunks'[s] # chunks[s]
                          \/ loopEnd'[s] # loopEnd[s])]_vars

\* The client disconnected while the session waited for the next chunk, and
\* the session has ended as Cancelled.
C21_Witness ==
    \E s \in sessions :
        /\ pc[s] = "done"
        /\ discPc[s] = "decode"
        /\ Cancelled(s)
        /\ Len(chunks[s]) >= 1

\* C22 as stated: in an ended session every error event is followed by a
\* complete event, wherever the client disconnected.
C22_ErrorThenTerminal ==
    \A s \in sessions :
        pc[s] = "done" =>
            \A i \in 1..Len(events[s]) :
                events[s][i] = ErrorEvent
                    => (i < Len(events[s]) /\ events[s][i + 1] = CompleteEvent)

\* C22: in an ended session every error event is followed at once by a complete
\* event, unless the client disconnected after the error event was written and
\* before the complete event was: then the error event is the last one.
C22_ErrorThenTerminalUnlessGone ==
    \A s \in sessions :
        pc[s] = "done" =>
            \A i \in 1..Len(events[s]) :
                events[s][i] = ErrorEvent =>
                    IF discPc[s] = "completion"
                    THEN i = Len(events[s]) /\ discLen[s] = i
                    ELSE /\ i < Len(events[s])
                         /\ events[s][i + 1] = CompleteEvent
                         /\ ctxErr[s] = Nil

\* The backend could not be reached, the error event was written, and the
\* client disconnected before the completion event: no complete event follows.
C22_Witness ==
    \E s \in sessions :
        /\ pc[s] = "done"
        /\ err[s] = Unavailable
        /\ discPc[s] = "completion"
        /\ events[s] = <<ErrorEvent>>

\* C23: a session writes at most one complete event, and no event after it.
C23_TerminalIsLast ==
    \A s \in sessions :
        /\ Count(EventKinds(s), "complete") <= 1
        /\ \A i \in 1..Len(events[s]) :
               events[s][i] = CompleteEvent => i = Len(events[s])

\* Three snapshots were pushed and the complete event closed the session.
C23_Witness ==
    \E s \in sessions :
        /\ pc[s] = "done"
        /\ EventKinds(s) = <<"content", "content", "content", "complete">>

(***************************************************************************)
(* The decode loop.                                                        *)
(***************************************************************************)
\* C24: no chunk is decoded after a chunk that says done; the fragment of that
\* chunk, if not empty, is in the buffer and its snapshot is the last content
\* event, pushed before the complete event.
C24_DoneEndsChunks ==
    \A s \in sessions :
        /\ \A i \in 1..Len(chunks[s]) : chunks[s][i].Done => i = Len(chunks[s])
        /\ (chunks[s] # <<>> /\ chunks[s][Len(chunks[s])].Done
               /\ chunks[s][Len(chunks[s])].Response # <<>>)
             => /\ pc[s] \notin {"loop", "decode"}
                /\ fullContent[s] = Concat(FragmentsOf(chunks[s]))
                /\ ContentData(s) # <<>>
                /\ ContentData(s)[Len(ContentData(s))] = Snapshot(strategy, fullContent[s])
                /\ \A i \in 1..Len(events[s]) :
                       IsContent(events[s][i]) => i <= Len(ContentData(s))

\* The second chunk said done and carried a fragment: two snapshots, then the
\* complete event.
C24_Witness ==
    \E s \in sessions :
        /\ pc[s] = "done"
        /\ Len(chunks[s]) = 2
        /\ chunks[s][2].Done /\ chunks[s][2].Response # <<>>
        /\ EventKinds(s) = <<"content", "content", "complete">>

\* C25: every content event is flushed in the step that writes it: in no state,
\* so neither when the next chunk is decoded nor when a later event is written,
\* is a content event still held back.
C25_SnapshotsFlushed ==
    \A s \in sessions :
        \A i \in 1..Len(events[s]) : IsContent(events[s][i]) => i <= flushed[s]

\* Two snapshots were pushed and flushed, and the loop waits for a third chunk.
C25_Witness ==
    \E s \in sessions :
        /\ pc[s] = "decode"
        /\ EventKinds(s) = <<"content", "content">>
        /\ flushed[s] = 2

\* C26: after a disconnect during the loop the session pushes the snapshot of
\* at most one more chunk, writes no error and no complete event, and once it
\* has ended it has left the loop with the backend request given up.
C26_DisconnectSeenAtNextSelect ==
    \A s \in sessions :
        discPc[s] \in {"loop", "decode"} =>
            /\ Len(events[s]) <= discLen[s] + 1
            /\ \A i \in (discLen[s] + 1)..Len(events[s]) : IsContent(events[s][i])
            /\ pc[s] = "done" => (Cancelled(s) /\ backend[s] # "streaming")
            /\ Count(EventKinds(s), "complete") = 0
            /\ Count(EventKinds(s), "error") = 0

\* The client disconnected while the loop waited for a chunk; one chunk the
\* decoder held was still pushed, and the session ended without terminal event.
C26_Witness ==
    \E s \in sessions :
        /\ pc[s] = "done"
        /\ discPc[s] = "decode"
        /\ Len(events[s]) = discLen[s] + 1
        /\ Count(EventKinds(s), "complete") = 0

\* C28: a session whose client disconnected while client.Do was awaited writes
\* no event at all, and the handler takes the error of the call for the
\* cancellation.
C28_SilentWhenAwaiting ==
    \A s \in sessions :
        discPc[s] = "awaiting" =>
            /\ events[s] = <<>>
            /\ chunks[s] = <<>>
            /\ pc[s] \in {"awaiting", "returned", "done"}
            /\ pc[s] # "awaiting" => err[s] = Canceled

\* The request was sent, the client disconnected before the backend answered,
\* and the handler has returned.
C28_Witness ==
    \E s \in sessions :
        /\ pc[s] = "done"
        /\ discPc[s] = "awaiting"
        /\ requests[s] = 1
        /\ backend[s] = "aborted"
        /\ events[s] = <<>>

(***************************************************************************)
(* The punctuation around a link.                                          *)
(***************************************************************************)
\* The leading punctuation of a word: its longest prefix of punctuation.
LeadingPunct(word) ==
    LET k == CHOOSE i \in 0..Len(word) :
                 /\ \A j \in 1..i : word[j] \in Punctuation
                 /\ i < Len(word) => word[i + 1] \notin Punctuation
    IN  SubSeq(word, 1, k)

\* The trailing punctuation of a word: its longest suffix of punctuation.
TrailingPunct(word) ==
    LET k == CHOOSE i \in 0..Len(word) :
                 /\ \A j \in (Len(word) - i + 1)..Len(word) : word[j] \in Punctuation
                 /\ i < Len(word) => word[Len(word) - i] \notin Punctuation
    IN  SubSeq(word, Len(word) - k + 1, Len(word))

\* Whether auto-linking makes a link of the word.
IsLinked(word) == ~(Len(Trim(word)) <= 2 \/ isCommonWord(Trim(word)))

\* The word with the tags of an anchor around what lies between its leading and
\* its trailing punctuation: taking the tags away gives back the word.
WithAnchor(word) ==
    LET lead == LeadingPunct(word)
        trail == TrailingPunct(word)
        inner == SubSeq(word, Len(lead) + 1, Len(word) - Len(trail))
    IN  lead \o AnchorOpen \o inner \o AnchorMid \o inner \o AnchorClose \o trail

\* C27: a linked word comes out as its leading punctuation, the anchor around
\* the stripped word, and its trailing punctuation, so that without the tags
\* of the anchor it is the word again; any other word comes out unchanged.
C27_PunctuationOutsideLink ==
    call = "words" =>
        LET words == Fields(input)
        IN  result = JoinWords([i \in 1..Len(words) |->
                                   IF IsLinked(words[i]) THEN WithAnchor(words[i])
                                   ELSE words[i]])

\* A word in brackets and quotes with a comma after it has been linked.
C27_Witness ==
    /\ call = "words"
    /\ HasPrefix(input, SeedQuoted)
    /\ HasPrefix(result, <<"(", "\"">> \o AnchorOpen \o <<"R", "o", "m", "e">>)
    /\ HasSubSeq(result, AnchorClose \o <<"\"", ")", ",">>)

====
